---- MODULE Spec2Model ----
(***************************************************************************)
(* AdmissionControlledS3Storage (rust/storage/src/admissioncontrolleds3.rs) *)
(* A wrapper over S3Storage that coalesces concurrent get(key) calls       *)
(* through a mutex-guarded map of Shared futures, and forwards get_stream, *)
(* put_file and put_bytes to the wrapped storage.                          *)
(***************************************************************************)
EXTENDS Integers, Sequences, FiniteSets, TLC

\* ------------------------------------------------------------------ bounds
\* get calls issued in the coalescing specification
MaxCalls == 4
\* get calls issued in the outcome specification
OutCalls == 3
\* get calls issued in the passthrough specifications
PassCalls == 1
\* put_file / put_bytes calls issued
MaxPuts == 2
\* get_stream calls issued
MaxStreams == 1
\* items of a backend stream in the draining specification
DrainLen == 3
\* get calls issued in the specification with dropped calls
DropCalls == 3
\* get calls issued in the specification with fair scheduling
LiveCalls == 3
\* get calls issued in the specification with the lock steps
LockCalls == 3

\* ------------------------------------------------------------------ values
Keys == {"a", "b"}

\* "no future": the value of HashMap::get's None
NoFuture == 0

\* parking_lot::Mutex not held
Unlocked == 0

\* ByteStreamItem = Result<Vec<u8>, GetError>
OkItem(chunk) == [tag |-> "Ok", chunk |-> chunk, err |-> "none"]
ErrItem(e) == [tag |-> "Err", chunk |-> <<>>, err |-> e]

\* what S3Storage::get_stream resolves to: a stream of items, or an S3GetError
OkStream(items) == [tag |-> "Ok", stream |-> items, err |-> "none"]
ErrStream(e) == [tag |-> "Err", stream |-> <<>>, err |-> e]

\* Result<Arc<Vec<u8>>, AdmissionControlledS3StorageError>; arc is the identity
\* of the allocation made by Arc::new (the future that made it)
OkRes(buf, arc) == [tag |-> "Ok", buf |-> buf, err |-> "none", arc |-> arc]
ErrRes(e) == [tag |-> "Err", buf |-> <<>>, err |-> e, arc |-> 0]
PanicRes == [tag |-> "Panic", buf |-> <<>>, err |-> "unreachable", arc |-> 0]
NoRes == [tag |-> "None", buf |-> <<>>, err |-> "none", arc |-> 0]

\* backend responses of a stream that yields no local-only error
RemoteResponses ==
    { OkStream(<<OkItem(<<1>>)>>), ErrStream("NoSuchKey") }

\* backend responses used where only the coalescing matters
FewResponses ==
    { OkStream(<<OkItem(<<1>>)>>), ErrStream("NoSuchKey"),
      OkStream(<<ErrItem("LocalError")>>) }

\* backend responses covering every path of read_from_storage
AllResponses ==
    { ErrStream("NoSuchKey"), ErrStream("S3Error"),
      OkStream(<<>>),
      OkStream(<<OkItem(<<1>>)>>),
      OkStream(<<OkItem(<<1>>), OkItem(<<2, 3>>)>>),
      OkStream(<<OkItem(<<1>>), ErrItem("NoSuchKey")>>),
      OkStream(<<OkItem(<<1>>), ErrItem("S3Error")>>),
      OkStream(<<OkItem(<<1>>), ErrItem("LocalError")>>) }

\* the items a backend stream is made of
Items ==
    { OkItem(<<1>>), OkItem(<<2, 3>>),
      ErrItem("S3Error"), ErrItem("NoSuchKey"), ErrItem("LocalError") }

\* the sequences of at most n items
RECURSIVE ItemSeqs(_)
ItemSeqs(n) ==
    IF n = 0 THEN {<<>>}
    ELSE LET shorter == ItemSeqs(n - 1) IN
         shorter \cup {Append(q, i) : q \in shorter, i \in Items}

\* backend responses: every finite stream of at most DrainLen items
DrainResponses == {OkStream(items) : items \in ItemSeqs(DrainLen)}

\* put_file(key, path) and put_bytes(key, bytes)
PutOps == {"put_file", "put_bytes"}
PutArgs(op) == IF op = "put_file" THEN {"/tmp/x"} ELSE {"bytes-1-2"}
PutResults == {"Ok", "S3PutError"}

\* ------------------------------------------------------------------ state
VARIABLES
    outstanding_requests,  \* key -> identity of the Shared future stored, or NoFuture
    futures,               \* the Shared futures created so far, by identity
    calls,                 \* the get calls issued so far, in order of arrival
    removed,               \* key -> number of requests.remove(key) executed
    backend_get_stream,    \* key -> number of S3Storage::get_stream(key) invocations
    backend_put,           \* the puts that reached S3Storage, in order
    streams,               \* the get_stream calls issued so far
    puts,                  \* the put_file / put_bytes calls issued so far
    mutex                  \* the call holding the lock of outstanding_requests, or Unlocked

vars == <<outstanding_requests, futures, calls, removed, backend_get_stream,
          backend_put, streams, puts, mutex>>

\* the state the get calls work on
getVars == <<outstanding_requests, futures, calls, removed>>

Init ==
    /\ outstanding_requests = [k \in Keys |-> NoFuture]
    /\ futures = <<>>
    /\ calls = <<>>
    /\ removed = [k \in Keys |-> 0]
    /\ backend_get_stream = [k \in Keys |-> 0]
    /\ backend_put = <<>>
    /\ streams = <<>>
    /\ puts = <<>>
    /\ mutex = Unlocked

\* ------------------------------------------------------- read_from_storage
\* a drain that reports every chunk error as the generic storage error
RECURSIVE ReadBytesToEndMasked(_, _, _)
ReadBytesToEndMasked(bytes, buf, arc) ==
    IF bytes = <<>>
    THEN OkRes(buf, arc)
    ELSE LET res == Head(bytes) IN
         IF res.tag = "Ok"
         THEN ReadBytesToEndMasked(Tail(bytes), buf \o res.chunk, arc)
         ELSE CASE res.err \in {"S3Error", "NoSuchKey"} -> ErrRes("S3Error")
                [] OTHER -> PanicRes

\* a drain that skips a failed chunk and returns what it has
RECURSIVE ReadBytesToEndPartial(_, _, _)
ReadBytesToEndPartial(bytes, buf, arc) ==
    IF bytes = <<>>
    THEN OkRes(buf, arc)
    ELSE LET res == Head(bytes) IN
         IF res.tag = "Ok"
         THEN ReadBytesToEndPartial(Tail(bytes), buf \o res.chunk, arc)
         ELSE CASE res.err = "S3Error" -> OkRes(buf, arc)
                [] res.err = "NoSuchKey" -> ErrRes("NoSuchKey")
                [] OTHER -> PanicRes

\* the while-let loop over the stream: buf accumulates the Ok chunks in order
RECURSIVE ReadBytesToEnd(_, _, _)
ReadBytesToEnd(bytes, buf, arc) ==
    IF bytes = <<>>
    THEN OkRes(buf, arc)
    ELSE LET res == Head(bytes) IN
         IF res.tag = "Ok"
         THEN ReadBytesToEnd(Tail(bytes), buf \o res.chunk, arc)
         ELSE CASE res.err = "S3Error" -> ErrRes("S3Error")
                [] res.err = "NoSuchKey" -> ErrRes("NoSuchKey")
                [] OTHER -> PanicRes

\* the number of bytes.next() calls of the loop that yield an item: the loop
\* goes on after an Ok item and is left at the first Err item
RECURSIVE Pulled(_)
Pulled(bytes) ==
    IF bytes = <<>> THEN 0
    ELSE IF Head(bytes).tag = "Ok" THEN 1 + Pulled(Tail(bytes))
    ELSE 1

\* a read that takes an empty buffer for a missing object
ReadFromStorageEmptyIsMissing(stream, arc) ==
    IF stream.tag = "Ok"
    THEN LET out == ReadBytesToEnd(stream.stream, <<>>, arc) IN
         IF out.tag = "Ok" /\ out.buf = <<>> THEN ErrRes("NoSuchKey") ELSE out
    ELSE ErrRes(stream.err)

\* the output of the future read_from_storage(storage, key) given what
\* storage.get_stream(&key) resolved to
ReadFromStorage(stream, arc) ==
    IF stream.tag = "Ok"
    THEN ReadBytesToEnd(stream.stream, <<>>, arc)
    ELSE ErrRes(stream.err)

\* ------------------------------------------------------------------- get
Awaiting(f) == {c \in DOMAIN calls : calls[c].pc = "await" /\ calls[c].future_to_await = f}

\* a lookup that never finds the stored future
MaybeInflightNever(key) == NoFuture

\* a lookup that takes whatever future is stored, whatever its key
MaybeInflightAnyKey(key) ==
    IF \E k \in Keys : outstanding_requests[k] # NoFuture
    THEN outstanding_requests[CHOOSE k \in Keys : outstanding_requests[k] # NoFuture]
    ELSE NoFuture

\* requests.get(&key).map(|fut| fut.clone())
MaybeInflight(key) == outstanding_requests[key]

\* lines 150-167: under the lock, join the stored future or create and insert one
Get(key, limit) ==
    /\ Len(calls) < limit
    /\ LET maybe_inflight == MaybeInflight(key)
           call(f) == [key |-> key, pc |-> "await", future_to_await |-> f,
                       res |-> NoRes, epoch |-> removed[key]]
       IN IF maybe_inflight # NoFuture
          THEN /\ calls' = Append(calls, call(maybe_inflight))
               /\ UNCHANGED <<futures, outstanding_requests>>
          ELSE LET id == Len(futures) + 1 IN
               /\ futures' = Append(futures,
                      [key |-> key, state |-> "Idle", stream |-> ErrStream("none"),
                       pulled |-> 0, output |-> NoRes])
               /\ outstanding_requests' = [outstanding_requests EXCEPT ![key] = id]
               /\ calls' = Append(calls, call(id))
    /\ UNCHANGED <<mutex, removed, backend_get_stream, backend_put, streams, puts>>

\* first poll of the Shared future by a task awaiting it: read_from_storage runs
\* up to storage.get_stream(&key).await
PollStart(f) ==
    /\ f \in DOMAIN futures
    /\ futures[f].state = "Idle"
    /\ Awaiting(f) # {}
    /\ futures' = [futures EXCEPT ![f].state = "InFlight"]
    /\ backend_get_stream' =
           [backend_get_stream EXCEPT ![futures[f].key] = @ + 1]
    /\ UNCHANGED <<mutex, outstanding_requests, calls, removed, backend_put, streams, puts>>

\* what Shared does with the inner future's completion, polled by task c:
\* the output is stored, or the panic unwinds through c and poisons the future
Complete(f, c, stream, out) ==
    IF out.tag = "Panic"
    THEN /\ futures' = [futures EXCEPT ![f].state = "Poisoned", ![f].stream = stream,
                                       ![f].pulled = Pulled(stream.stream)]
         /\ calls' = [calls EXCEPT ![c].pc = "panicked"]
    ELSE /\ futures' = [futures EXCEPT ![f].state = "Complete", ![f].stream = stream,
                                       ![f].pulled = Pulled(stream.stream),
                                       ![f].output = out]
         /\ UNCHANGED calls

\* the backend answers and the task polling the future drains the stream
Settle(f, responses) ==
    /\ f \in DOMAIN futures
    /\ futures[f].state = "InFlight"
    /\ \E c \in Awaiting(f), stream \in responses :
          Complete(f, c, stream, ReadFromStorage(stream, f))
    /\ UNCHANGED <<mutex, outstanding_requests, removed, backend_get_stream, backend_put,
                   streams, puts>>

\* an output moved out by the first task to observe it
SharedOutputTaken(f, c) ==
    IF \E d \in DOMAIN calls :
          d # c /\ calls[d].future_to_await = f /\ calls[d].pc \in {"retire", "done"}
    THEN ErrRes("S3Error")
    ELSE futures[f].output

\* Shared hands every holder a clone of the stored output
SharedOutput(f, c) == futures[f].output

\* an await that resolves for the task that created the future only
AwaitReadyCreatorOnly(c) ==
    /\ c \in DOMAIN calls
    /\ calls[c].pc = "await"
    /\ futures[calls[c].future_to_await].state = "Complete"
    /\ \A d \in 1..(c - 1) : calls[d].future_to_await # calls[c].future_to_await
    /\ calls' = [calls EXCEPT ![c].pc = "retire",
                              ![c].res = SharedOutput(calls[c].future_to_await, c)]
    /\ UNCHANGED <<mutex, outstanding_requests, futures, removed, backend_get_stream,
                   backend_put, streams, puts>>

\* line 168: future_to_await.await resolves
AwaitReady(c) ==
    /\ c \in DOMAIN calls
    /\ calls[c].pc = "await"
    /\ futures[calls[c].future_to_await].state = "Complete"
    /\ calls' = [calls EXCEPT ![c].pc = "retire",
                              ![c].res = SharedOutput(calls[c].future_to_await, c)]
    /\ UNCHANGED <<mutex, outstanding_requests, futures, removed, backend_get_stream,
                   backend_put, streams, puts>>

\* line 168: polling a Shared whose inner future panicked panics as well
AwaitPoisoned(c) ==
    /\ c \in DOMAIN calls
    /\ calls[c].pc = "await"
    /\ futures[calls[c].future_to_await].state = "Poisoned"
    /\ calls' = [calls EXCEPT ![c].pc = "panicked"]
    /\ UNCHANGED <<mutex, outstanding_requests, futures, removed, backend_get_stream,
                   backend_put, streams, puts>>

\* line 168: the caller drops the future of get while it is suspended at the
\* await; the rest of get, the removal included, never runs
Abandon(c) ==
    /\ c \in DOMAIN calls
    /\ calls[c].pc = "await"
    /\ calls' = [calls EXCEPT ![c].pc = "dropped"]
    /\ UNCHANGED <<mutex, outstanding_requests, futures, removed, backend_get_stream,
                   backend_put, streams, puts>>

\* a retirement skipped when the awaited future failed
RemoveOnSuccess(key, f) ==
    IF futures[f].output.tag = "Ok"
    THEN [outstanding_requests EXCEPT ![key] = NoFuture]
    ELSE outstanding_requests

\* a retirement that leaves the entry in the map
RemoveNothing(key, f) == outstanding_requests

\* requests.remove(&key)
Remove(key, f) == [outstanding_requests EXCEPT ![key] = NoFuture]

\* lines 169-173: under the lock, remove the entry of the key, then return res
Retire(c) ==
    /\ c \in DOMAIN calls
    /\ calls[c].pc = "retire"
    /\ outstanding_requests' = Remove(calls[c].key, calls[c].future_to_await)
    /\ removed' = [removed EXCEPT ![calls[c].key] = @ + 1]
    /\ calls' = [calls EXCEPT ![c].pc = "done"]
    /\ UNCHANGED <<mutex, futures, backend_get_stream, backend_put, streams, puts>>

GetNext(limit, responses) ==
    \/ \E key \in Keys : Get(key, limit)
    \/ \E f \in DOMAIN futures : PollStart(f)
    \/ \E f \in DOMAIN futures : Settle(f, responses)
    \/ \E c \in DOMAIN calls : AwaitReady(c)
    \/ \E c \in DOMAIN calls : AwaitPoisoned(c)
    \/ \E c \in DOMAIN calls : Retire(c)

\* ------------------------------------------------- get, one step of the lock at a time
\* line 146: get is called and comes to self.outstanding_requests.lock()
GetCall(key, limit) ==
    /\ Len(calls) < limit
    /\ calls' = Append(calls, [key |-> key, pc |-> "lock", future_to_await |-> NoFuture,
                               res |-> NoRes, epoch |-> removed[key]])
    /\ UNCHANGED <<mutex, outstanding_requests, futures, removed, backend_get_stream,
                   backend_put, streams, puts>>

\* a lock that never makes its caller wait
MutexFreeAlways == TRUE

\* parking_lot::Mutex::lock returns when no one holds the mutex
MutexFree == mutex = Unlocked

\* lines 152, 170: let mut requests = self.outstanding_requests.lock()
Lock(c) ==
    /\ c \in DOMAIN calls
    /\ calls[c].pc \in {"lock", "retire"}
    /\ MutexFree
    /\ mutex' = c
    /\ calls' = [calls EXCEPT ![c].pc = IF @ = "lock" THEN "lookup" ELSE "remove"]
    /\ UNCHANGED <<outstanding_requests, futures, removed, backend_get_stream,
                   backend_put, streams, puts>>

\* line 153: let maybe_inflight = requests.get(&key).map(|fut| fut.clone())
Lookup(c) ==
    /\ c \in DOMAIN calls
    /\ calls[c].pc = "lookup"
    /\ calls' = [calls EXCEPT ![c].pc = "match",
                              ![c].future_to_await = MaybeInflight(calls[c].key),
                              ![c].epoch = removed[calls[c].key]]
    /\ UNCHANGED <<mutex, outstanding_requests, futures, removed, backend_get_stream,
                   backend_put, streams, puts>>

\* lines 154-166: match maybe_inflight: Some(fut) => fut, None => create and insert
Match(c) ==
    /\ c \in DOMAIN calls
    /\ calls[c].pc = "match"
    /\ IF calls[c].future_to_await # NoFuture
       THEN /\ calls' = [calls EXCEPT ![c].pc = "unlock"]
            /\ UNCHANGED <<futures, outstanding_requests>>
       ELSE LET id == Len(futures) + 1 IN
            /\ futures' = Append(futures,
                   [key |-> calls[c].key, state |-> "Idle", stream |-> ErrStream("none"),
                    pulled |-> 0, output |-> NoRes])
            /\ outstanding_requests' = [outstanding_requests EXCEPT ![calls[c].key] = id]
            /\ calls' = [calls EXCEPT ![c].pc = "unlock", ![c].future_to_await = id]
    /\ UNCHANGED <<mutex, removed, backend_get_stream, backend_put, streams, puts>>

\* line 171: requests.remove(&key)
RemoveLocked(c) ==
    /\ c \in DOMAIN calls
    /\ calls[c].pc = "remove"
    /\ outstanding_requests' = Remove(calls[c].key, calls[c].future_to_await)
    /\ removed' = [removed EXCEPT ![calls[c].key] = @ + 1]
    /\ calls' = [calls EXCEPT ![c].pc = "unlock"]
    /\ UNCHANGED <<mutex, futures, backend_get_stream, backend_put, streams, puts>>

\* lines 167, 172: the guard goes out of scope at the end of its block: after
\* the lookup the call goes on to the await, after the removal it returns res
Unlock(c) ==
    /\ c \in DOMAIN calls
    /\ calls[c].pc = "unlock"
    /\ mutex' = Unlocked
    /\ calls' = [calls EXCEPT ![c].pc = IF calls[c].res = NoRes THEN "await" ELSE "done"]
    /\ UNCHANGED <<outstanding_requests, futures, removed, backend_get_stream,
                   backend_put, streams, puts>>

GetNextLocked(limit) ==
    \/ \E key \in Keys : GetCall(key, limit)
    \/ \E c \in DOMAIN calls : Lock(c)
    \/ \E c \in DOMAIN calls : Lookup(c)
    \/ \E c \in DOMAIN calls : Match(c)
    \/ \E c \in DOMAIN calls : Unlock(c)
    \/ \E f \in DOMAIN futures : PollStart(f)
    \/ \E f \in DOMAIN futures : Settle(f, RemoteResponses)
    \/ \E c \in DOMAIN calls : AwaitReady(c)
    \/ \E c \in DOMAIN calls : RemoveLocked(c)

\* get, as long as the stream yields no local-only error (nothing panics)
GetNextRemote(limit) ==
    \/ \E key \in Keys : Get(key, limit)
    \/ \E f \in DOMAIN futures : PollStart(f)
    \/ \E f \in DOMAIN futures : Settle(f, RemoteResponses)
    \/ \E c \in DOMAIN calls : AwaitReady(c)
    \/ \E c \in DOMAIN calls : Retire(c)

\* ------------------------------------------------------------ get_stream
\* a get_stream that rides on the future registered for the key, when there is one
GetStreamCoalesced(key) ==
    /\ Len(streams) < MaxStreams
    /\ streams' = Append(streams, [key |-> key, pc |-> "await", res |-> NoRes])
    /\ backend_get_stream' =
           IF outstanding_requests[key] # NoFuture
           THEN backend_get_stream
           ELSE [backend_get_stream EXCEPT ![key] = @ + 1]
    /\ UNCHANGED <<mutex, outstanding_requests, futures, calls, removed, backend_put, puts>>

\* lines 73-77: the call reaches self.storage.get_stream(key)
GetStream(key) ==
    /\ Len(streams) < MaxStreams
    /\ streams' = Append(streams, [key |-> key, pc |-> "await", res |-> NoRes])
    /\ backend_get_stream' = [backend_get_stream EXCEPT ![key] = @ + 1]
    /\ UNCHANGED <<mutex, outstanding_requests, futures, calls, removed, backend_put, puts>>

\* lines 78-84: Ok(res) => Ok(res), Err(e) => Err(S3GetError(e))
GetStreamResult(stream) ==
    IF stream.tag = "Ok"
    THEN [tag |-> "Ok", stream |-> stream.stream, err |-> "none"]
    ELSE [tag |-> "Err", stream |-> <<>>, err |-> stream.err]

GetStreamReturn(s) ==
    /\ s \in DOMAIN streams
    /\ streams[s].pc = "await"
    /\ \E stream \in AllResponses :
          streams' = [streams EXCEPT ![s].pc = "done",
                                     ![s].res = GetStreamResult(stream)]
    /\ UNCHANGED <<mutex, outstanding_requests, futures, calls, removed, backend_get_stream,
                   backend_put, puts>>

\* ------------------------------------------------------ put_file / put_bytes
\* lines 177, 181: the arguments handed to self.storage.put_file / put_bytes
Forward(op, key, arg) == [op |-> op, key |-> key, arg |-> arg, result |-> "pending"]

PutCall(op, key, arg) ==
    /\ Len(puts) < MaxPuts
    /\ backend_put' = Append(backend_put, Forward(op, key, arg))
    /\ puts' = Append(puts, [op |-> op, key |-> key, arg |-> arg, pc |-> "await",
                             res |-> "none", at |-> Len(backend_put) + 1])
    /\ UNCHANGED <<mutex, outstanding_requests, futures, calls, removed, backend_get_stream,
                   streams>>

\* a put that swallows the backend's error
PutResultSwallowed(backend_result) == "Ok"

\* lines 177, 181: the value of the call is the value of the backend's future
PutResult(backend_result) == backend_result

PutReturn(p) ==
    /\ p \in DOMAIN puts
    /\ puts[p].pc = "await"
    /\ \E r \in PutResults :
          /\ backend_put' = [backend_put EXCEPT ![puts[p].at].result = r]
          /\ puts' = [puts EXCEPT ![p].pc = "done", ![p].res = PutResult(r)]
    /\ UNCHANGED <<mutex, outstanding_requests, futures, calls, removed, backend_get_stream,
                   streams>>

StreamNext ==
    \/ \E key \in Keys : GetStream(key)
    \/ \E s \in DOMAIN streams : GetStreamReturn(s)

PutNext ==
    \/ \E op \in PutOps, key \in Keys : \E arg \in PutArgs(op) : PutCall(op, key, arg)
    \/ \E p \in DOMAIN puts : PutReturn(p)

\* ---------------------------------------------------------- specifications
\* the coalescing of get calls
Next == GetNext(MaxCalls, FewResponses)
Spec == Init /\ [][Next]_vars

\* the outcomes of get calls, over every path of read_from_storage
NextOutcome == GetNext(OutCalls, AllResponses)
SpecOutcome == Init /\ [][NextOutcome]_vars

\* get calls together with get_stream calls
NextStream == GetNextRemote(PassCalls) \/ StreamNext
SpecStream == Init /\ [][NextStream]_vars

\* get calls together with put_file and put_bytes calls
NextPut == GetNextRemote(PassCalls) \/ PutNext
SpecPut == Init /\ [][NextPut]_vars

\* one get call draining any finite backend stream
NextDrain ==
    \/ \E key \in Keys : Get(key, 1)
    \/ \E f \in DOMAIN futures : PollStart(f)
    \/ \E f \in DOMAIN futures : Settle(f, DrainResponses)
    \/ \E c \in DOMAIN calls : AwaitReady(c)
    \/ \E c \in DOMAIN calls : Retire(c)
SpecDrain == Init /\ [][NextDrain]_vars

\* get calls, any of which the caller may drop while it awaits
NextDrop == GetNext(DropCalls, FewResponses) \/ \E c \in DOMAIN calls : Abandon(c)
SpecDrop == Init /\ [][NextDrop]_vars

\* get calls under fair scheduling: a completed Shared wakes every task that
\* awaits it and the executor runs a woken task, which goes on to its removal
\* without suspending; nothing obliges the backend to answer
NextLive == GetNext(LiveCalls, FewResponses)
FairLive ==
    \A c \in 1..LiveCalls : WF_vars(AwaitReady(c)) /\ WF_vars(Retire(c))
SpecLive == Init /\ [][NextLive]_vars /\ FairLive

\* get calls with the acquisition and release of the lock as steps of their own
NextLock == GetNextLocked(LockCalls)
SpecLock == Init /\ [][NextLock]_vars

\* ------------------------------------------------------------------ claims
CallsOn(key) == {c \in DOMAIN calls : calls[c].key = key}
FutureOf(c) == calls[c].future_to_await
Returned(c) == calls[c].pc = "done"
HasResult(c) == calls[c].pc \in {"retire", "done"}

\* c found no entry at its lookup: it is the first call to hold its future
Creator(c) == \A d \in 1..(c - 1) : FutureOf(d) # FutureOf(c)

\* every invocation of the backend's get_stream(key) is the single start of a
\* future for that key, or a get_stream call for that key
Accounting ==
    \A k \in Keys :
        backend_get_stream[k] =
            Cardinality({f \in DOMAIN futures :
                            futures[f].key = k /\ futures[f].state # "Idle"})
            + Cardinality({s \in DOMAIN streams : streams[s].key = k})

C2_AtMostOneLive ==
    \A k \in Keys :
        Cardinality({f \in DOMAIN futures :
                        futures[f].key = k /\ futures[f].state = "InFlight"}) <= 1

\* C3. Identity-safe retirement: the retirement step of a get call whose
\* awaited future is not the one stored under its key leaves the stored entry.
C3_IdentitySafeRetire ==
    [][ \A c \in DOMAIN calls :
          ( /\ calls[c].pc = "retire"
            /\ calls'[c].pc = "done"
            /\ outstanding_requests[calls[c].key] # FutureOf(c) )
          => outstanding_requests'[calls[c].key] = outstanding_requests[calls[c].key]
      ]_vars

\* C4. All get calls that hold the same future and have its outcome have the
\* identical outcome: the same buffer (same allocation) or the same error kind.
C4_IdenticalOutcome ==
    \A c1, c2 \in DOMAIN calls :
        (FutureOf(c1) = FutureOf(c2) /\ HasResult(c1) /\ HasResult(c2))
        => /\ calls[c1].res = calls[c2].res
           /\ calls[c1].res.tag \in {"Ok", "Err"}

C4_Witness ==
    \E c1, c2 \in DOMAIN calls :
        /\ c1 < c2
        /\ FutureOf(c1) = FutureOf(c2)
        /\ Returned(c1) /\ Returned(c2)
        /\ calls[c2].res.tag = "Ok"
        /\ calls[c2].res.buf = <<1, 2, 3>>
        /\ calls[c1].res.arc = FutureOf(c1)

\* the first error of a stream of items, "none" when every item is Ok
RECURSIVE FirstError(_)
FirstError(items) ==
    IF items = <<>> THEN "none"
    ELSE IF Head(items).tag = "Err" THEN Head(items).err
    ELSE FirstError(Tail(items))

\* the backend reported NotFound: from get_stream itself, or from a chunk
BackendNotFound(stream) ==
    \/ stream.tag = "Err" /\ stream.err = "NoSuchKey"
    \/ stream.tag = "Ok" /\ FirstError(stream.stream) = "NoSuchKey"

\* C5. Error fidelity: a get call returning from a future whose backend fetch
\* reported NotFound returns the NoSuchKey error, and when it is the last
\* holder of that future to return no entry is stored under the key.
C5_ErrorFidelity ==
    [][ \A c \in DOMAIN calls :
          ( /\ calls[c].pc = "retire"
            /\ calls'[c].pc = "done"
            /\ BackendNotFound(futures[FutureOf(c)].stream) )
          => /\ calls'[c].res = ErrRes("NoSuchKey")
             /\ (\A d \in DOMAIN calls :
                    FutureOf(d) = FutureOf(c) => calls'[d].pc = "done")
                => outstanding_requests'[calls[c].key] = NoFuture
      ]_vars

C5_Witness ==
    \E c1, c2 \in DOMAIN calls :
        /\ c1 < c2
        /\ FutureOf(c1) = FutureOf(c2)
        /\ futures[FutureOf(c1)].stream = OkStream(<<OkItem(<<1>>), ErrItem("NoSuchKey")>>)
        /\ Returned(c1) /\ Returned(c2)
        /\ calls[c1].res = ErrRes("NoSuchKey") /\ calls[c2].res = ErrRes("NoSuchKey")
        /\ outstanding_requests[calls[c1].key] = NoFuture

\* every earlier get on the key of c had removed the entry when c did its lookup
Sequential(c) ==
    calls[c].epoch = Cardinality({d \in 1..(c - 1) : calls[d].key = calls[c].key})

\* C6. Post-settlement reset: when the get calls on a key are strictly
\* sequential, each registers a new future of its own, no result is the buffer
\* of an earlier future, and M returned calls have caused M backend fetches.
C6_PostSettlementReset ==
    \A k \in Keys :
        (\A c \in CallsOn(k) : Sequential(c))
        => /\ \A c \in CallsOn(k) : Creator(c)
           /\ \A c \in CallsOn(k) :
                 (HasResult(c) /\ calls[c].res.tag = "Ok") => calls[c].res.arc = FutureOf(c)
           /\ backend_get_stream[k] >= Cardinality({c \in CallsOn(k) : HasResult(c)})
           /\ (\A c \in CallsOn(k) : Returned(c))
              => backend_get_stream[k] = Cardinality(CallsOn(k))

C6_Witness ==
    \E k \in Keys :
        /\ Cardinality(CallsOn(k)) = 3
        /\ \A c \in CallsOn(k) : Sequential(c) /\ Returned(c)
        /\ \E c \in CallsOn(k) : calls[c].res.tag = "Err"
        /\ \E c \in CallsOn(k) : calls[c].res.tag = "Ok"
        /\ backend_get_stream[k] = 3

\* C7. Key isolation: a get call only ever awaits a future of its own key, the
\* entry of a key is a future of that key, and whatever the state of the
\* other keys a get can be issued, a resolved await completes and a
\* retirement runs.
C7_KeyIsolation ==
    /\ \A c \in DOMAIN calls : futures[FutureOf(c)].key = calls[c].key
    /\ \A k \in Keys :
          outstanding_requests[k] # NoFuture => futures[outstanding_requests[k]].key = k
    /\ \A c1, c2 \in DOMAIN calls :
          calls[c1].key # calls[c2].key => FutureOf(c1) # FutureOf(c2)
    /\ \A c \in DOMAIN calls :
          /\ (calls[c].pc = "await" /\ futures[FutureOf(c)].state = "Idle")
             => ENABLED PollStart(FutureOf(c))
          /\ (calls[c].pc = "await" /\ futures[FutureOf(c)].state = "Complete")
             => ENABLED AwaitReady(c)
          /\ calls[c].pc = "retire" => ENABLED Retire(c)
    /\ Len(calls) < MaxCalls => \A k \in Keys : ENABLED Get(k, MaxCalls)

\* get("a") registered after get("b"), settled and returned while the fetch
\* for "b" is still in flight
C7_Witness ==
    \E c1, c2 \in DOMAIN calls :
        /\ c1 < c2
        /\ calls[c1].key # calls[c2].key
        /\ calls[c1].pc = "await"
        /\ futures[FutureOf(c1)].state = "InFlight"
        /\ Returned(c2)
        /\ calls[c2].res.tag = "Ok"
        /\ backend_get_stream[calls[c1].key] = 1
        /\ backend_get_stream[calls[c2].key] = 1

\* every put call reached the backend exactly once, with its own operation,
\* key and argument, and a returned put has the backend's result
PutsForwarded ==
    /\ Len(backend_put) = Len(puts)
    /\ \A p \in DOMAIN puts :
          /\ puts[p].at \in DOMAIN backend_put
          /\ backend_put[puts[p].at].op = puts[p].op
          /\ backend_put[puts[p].at].key = puts[p].key
          /\ backend_put[puts[p].at].arg = puts[p].arg
          /\ puts[p].pc = "done"
             => /\ puts[p].res \in PutResults
                /\ puts[p].res = backend_put[puts[p].at].result
          /\ puts[p].pc = "await" => ENABLED PutReturn(p)
    /\ \A p, q \in DOMAIN puts : p # q => puts[p].at # puts[q].at

\* C8. Write passthrough: every put_file / put_bytes call results in exactly
\* one backend put with the same key and argument and returns the backend's
\* result; concurrent puts both reach the backend; a put step leaves the
\* registry, the futures and the get calls as they are.
C8_WritePassthrough ==
    [][ /\ PutsForwarded'
        /\ (puts' # puts \/ backend_put' # backend_put)
           => UNCHANGED <<getVars, backend_get_stream>>
      ]_vars

C8_Witness ==
    \E p, q \in DOMAIN puts, c \in DOMAIN calls :
        /\ p < q
        /\ puts[p].key = puts[q].key
        /\ puts[q].pc = "await"
        /\ puts[p].pc = "done" /\ puts[p].res = "S3PutError"
        /\ Len(backend_put) = 2
        /\ calls[c].key = puts[p].key
        /\ calls[c].pc = "await"
        /\ futures[FutureOf(c)].state = "InFlight"
        /\ outstanding_requests[calls[c].key] = FutureOf(c)

\* C9. get_stream is never coalesced: each get_stream(k) call is one more
\* invocation of the backend's get_stream(k), also while a future for k is
\* registered or in flight, and a get_stream step leaves the registry, the
\* futures and the get calls as they are.
C9_StreamNotCoalesced ==
    [][ /\ Accounting'
        /\ streams' # streams
           => /\ UNCHANGED getVars
              /\ \A k \in Keys :
                    backend_get_stream'[k] - backend_get_stream[k] =
                        Cardinality({s \in DOMAIN streams' : streams'[s].key = k})
                        - Cardinality({s \in DOMAIN streams : streams[s].key = k})
      ]_vars

C9_Witness ==
    \E s \in DOMAIN streams, c \in DOMAIN calls :
        /\ streams[s].key = calls[c].key
        /\ streams[s].pc = "done"
        /\ streams[s].res.tag = "Ok"
        /\ calls[c].pc = "await"
        /\ futures[FutureOf(c)].state = "InFlight"
        /\ outstanding_requests[calls[c].key] = FutureOf(c)
        /\ backend_get_stream[calls[c].key] = 2

\* C10. Empty object: a future whose backend stream yields zero chunks
\* completes with a successful empty buffer, every call holding it gets that
\* success, and a call that returned has left no entry of that future.
C10_EmptyObject ==
    \A f \in DOMAIN futures :
        futures[f].stream = OkStream(<<>>)
        => /\ futures[f].state = "Complete"
           /\ futures[f].output = OkRes(<<>>, f)
           /\ \A c \in DOMAIN calls :
                 FutureOf(c) = f
                 => /\ HasResult(c) => calls[c].res = OkRes(<<>>, f)
                    /\ Returned(c) => outstanding_requests[calls[c].key] # f
                    /\ calls[c].pc # "panicked"

C10_Witness ==
    \E c \in DOMAIN calls :
        /\ futures[FutureOf(c)].stream = OkStream(<<>>)
        /\ Returned(c)
        /\ calls[c].res.tag = "Ok"
        /\ calls[c].res.buf = <<>>
        /\ outstanding_requests[calls[c].key] = NoFuture

\* the chunks of the Ok items of a stream, concatenated in order
RECURSIVE Concat(_)
Concat(items) ==
    IF items = <<>> THEN <<>>
    ELSE IF Head(items).tag = "Ok" THEN Head(items).chunk \o Concat(Tail(items))
    ELSE Concat(Tail(items))

\* the position of the first Err item of a stream, 0 when every item is Ok
FirstErrorAt(items) ==
    IF \E i \in DOMAIN items : items[i].tag = "Err"
    THEN CHOOSE i \in DOMAIN items :
            items[i].tag = "Err" /\ \A j \in 1..(i - 1) : items[j].tag = "Ok"
    ELSE 0

Settled(f) == futures[f].state \in {"Complete", "Poisoned"}

\* a success is the concatenation of a stream of Ok items, pulled to its end
DrainSuccess(f) ==
    LET items == futures[f].stream.stream IN
    /\ (futures[f].state = "Complete" /\ futures[f].output.tag = "Ok")
       <=> FirstError(items) = "none"
    /\ FirstError(items) = "none"
       => /\ futures[f].output = OkRes(Concat(items), f)
          /\ futures[f].pulled = Len(items)
    /\ FirstError(items) # "none" => futures[f].pulled = FirstErrorAt(items)
    /\ \A c \in DOMAIN calls :
          (FutureOf(c) = f /\ HasResult(c)) => calls[c].res = futures[f].output

\* C11, as claimed. Stream draining: the fetch body returns success only if every
\* chunk was Ok, with the concatenation of all chunks in order as the buffer;
\* if any chunk is an error it stops at the first such chunk and returns that
\* error, and bytes accumulated before it are never returned as a success.
C11_DrainReturnsFirstError ==
    \A f \in DOMAIN futures :
        (Settled(f) /\ futures[f].stream.tag = "Ok")
        => /\ DrainSuccess(f)
           /\ FirstError(futures[f].stream.stream) # "none"
              => /\ futures[f].state = "Complete"
                 /\ futures[f].output = ErrRes(FirstError(futures[f].stream.stream))

\* C11, amended. As claimed when the first failed chunk carries an S3 error or
\* NoSuchKey; when it carries a local-only error the body stops there too but
\* panics and returns nothing. No partial buffer is returned as a success.
C11_StreamDraining ==
    \A f \in DOMAIN futures :
        (Settled(f) /\ futures[f].stream.tag = "Ok")
        => /\ DrainSuccess(f)
           /\ FirstError(futures[f].stream.stream) \in {"S3Error", "NoSuchKey"}
              => /\ futures[f].state = "Complete"
                 /\ futures[f].output = ErrRes(FirstError(futures[f].stream.stream))
           /\ FirstError(futures[f].stream.stream) = "LocalError"
              => /\ futures[f].state = "Poisoned"
                 /\ futures[f].output = NoRes

\* two chunks accumulated, then a failed chunk, then a chunk that is never pulled
C11_Witness ==
    \E c \in DOMAIN calls :
        /\ futures[FutureOf(c)].stream =
               OkStream(<<OkItem(<<2, 3>>), OkItem(<<1>>), ErrItem("S3Error")>>)
        /\ Returned(c)
        /\ calls[c].res = ErrRes("S3Error")
        /\ futures[FutureOf(c)].pulled = 3

\* a future whose body panicked is left by every call that held it with an
\* error result, and is then no longer the entry of its key
PanicSurfaced(f) ==
    (\A c \in DOMAIN calls : FutureOf(c) = f => calls[c].pc # "await")
    => /\ \A c \in DOMAIN calls : FutureOf(c) = f => calls[c].res.tag = "Err"
       /\ outstanding_requests[futures[f].key] # f

\* C12. Panic safety: when the fetch body panics, every call joined to that
\* future ends with a terminal error outcome, and the key does not stay bound to
\* the broken future once those calls have ended.
C12_PanicSafety ==
    \A f \in DOMAIN futures : futures[f].state = "Poisoned" => PanicSurfaced(f)

\* C17. No stale join: a get call never takes, at its lookup, a future that
\* has already settled.
C17_NoStaleJoin ==
    [][ Len(calls') = Len(calls) + 1
        => LET f == calls'[Len(calls')].future_to_await IN
           f \in DOMAIN futures => futures[f].state \notin {"Complete", "Poisoned"}
      ]_vars

\* C13. No cancellation: a future that was registered and started can always
\* run on to settlement, whichever calls were dropped, and a settled future
\* that is still the entry of its key has a call that will retire it.
C13_NoCancellation ==
    \A f \in DOMAIN futures :
        /\ futures[f].state = "InFlight" => ENABLED Settle(f, FewResponses)
        /\ (futures[f].state = "Complete" /\ outstanding_requests[futures[f].key] = f)
           => \E c \in DOMAIN calls :
                 FutureOf(c) = f /\ calls[c].pc \in {"await", "retire"}

\* C15. Transient entries: when every get call issued has returned the map is
\* empty, and the entry of a key exists only while a get call of that key that
\* holds the stored future has not yet done its removal.
C15_TransientEntries ==
    /\ (\A c \in DOMAIN calls : Returned(c))
       => \A k \in Keys : outstanding_requests[k] = NoFuture
    /\ \A k \in Keys :
          outstanding_requests[k] # NoFuture
          => \E c \in CallsOn(k) :
                FutureOf(c) = outstanding_requests[k] /\ ~Returned(c)

C15_Witness ==
    /\ Len(calls) = 3
    /\ \A c \in DOMAIN calls : Returned(c)
    /\ FutureOf(1) = FutureOf(2)
    /\ FutureOf(3) # FutureOf(1)
    /\ calls[3].key = calls[1].key
    /\ calls[1].res.tag = "Err"
    /\ \A k \in Keys : outstanding_requests[k] = NoFuture

\* C16. Liveness of get: under fair scheduling, a get call that awaits a
\* future whose backend fetch has settled eventually returns.
C16_GetLiveness ==
    \A c \in 1..LiveCalls :
        (c \in DOMAIN calls /\ calls[c].pc = "await"
           /\ futures[FutureOf(c)].state = "Complete")
        ~> (c \in DOMAIN calls /\ Returned(c))

\* a joiner has returned the settled outcome of the future it joined
C16_Witness ==
    \E c \in DOMAIN calls :
        /\ ~Creator(c)
        /\ futures[FutureOf(c)].state = "Complete"
        /\ Returned(c)
        /\ calls[c].res = futures[FutureOf(c)].output
        /\ \E d \in DOMAIN calls :
              /\ calls[d].pc = "await"
              /\ futures[FutureOf(d)].state = "InFlight"

\* the steps of get between lock() and the end of the guard's block
InLock(c) == calls[c].pc \in {"lookup", "match", "remove", "unlock"}

\* the lock is held by the one call inside a locked block, and by no call
\* that awaits its future or has not come to the lock
LockHeldInBlocksOnly ==
    /\ \A c \in DOMAIN calls : InLock(c) <=> mutex = c
    /\ mutex # Unlocked => mutex \in DOMAIN calls
    /\ \A k \in Keys :
          Cardinality({c \in CallsOn(k) :
              calls[c].pc = "match" /\ calls[c].future_to_await = NoFuture}) <= 1

\* C14. Registry lock discipline: lookup and insertion are one step under the
\* lock: an insertion is made by the lock holder over the absent entry it
\* looked up, so two get(k) calls never both see 'absent' and both insert;
\* and no call holds the lock while it awaits its future.
C14_LockDiscipline ==
    [][ /\ LockHeldInBlocksOnly'
        /\ \A k \in Keys :
              (outstanding_requests'[k] # outstanding_requests[k]
                 /\ outstanding_requests'[k] # NoFuture)
              => /\ outstanding_requests[k] = NoFuture
                 /\ mutex \in DOMAIN calls
                 /\ calls[mutex].key = k
                 /\ calls[mutex].pc = "match"
      ]_vars

\* one call awaits the future it inserted while its fetch is in flight, a
\* second call holds the lock and has looked up that future, a third waits
\* for the lock
C14_Witness ==
    \E c1, c2, c3 \in DOMAIN calls :
        /\ calls[c1].pc = "await"
        /\ futures[FutureOf(c1)].state = "InFlight"
        /\ calls[c2].key = calls[c1].key
        /\ calls[c2].pc = "match"
        /\ FutureOf(c2) = FutureOf(c1)
        /\ mutex = c2
        /\ calls[c3].key = calls[c1].key
        /\ calls[c3].pc = "lock"

====
